---------------------------- MODULE Spec2Model ----------------------------
(***************************************************************************)
(* EmployWise user-management front end: the login form, the protected     *)
(* /users route, the api client and the Users view (page fetch, in-memory  *)
(* filters, edit and delete), as a state machine.                          *)
(*                                                                         *)
(* Text (names, emails, search terms) is a sequence of one-character       *)
(* strings, so that toLowerCase, includes, split, charAt, localeCompare    *)
(* and the e-mail regular expression are computed, not assumed.  Tokens    *)
(* and the Authorization header are TLC strings.                           *)
(***************************************************************************)
EXTENDS Integers, Sequences, FiniteSets, Bags, TLC

VARIABLES
    token,               \* localStorage 'token' (NoItem when absent)
    userFilters,         \* localStorage 'userFilters' (NoItem when absent)
    route,               \* the router's location
    usersRendered,       \* PrivateRoute rendered its children (Navbar + Users)
    email, password, isLoading, errors,                 \* Login state
    users, loading, currentPage, totalPages,            \* Users state
    selectedUser, isEditModalOpen,
    searchTerm, debouncedSearchTerm, isFilterOpen,
    selectedLetter, sortDirection, selectedDomains,
    inflight,            \* bag of requests issued through the api client, not yet settled
    overlapped,          \* history: some request now in flight has shared the wire with another
    issued               \* history: requests issued since the page was loaded

loginVars == <<email, password, isLoading, errors>>
listVars == <<users, loading, currentPage, totalPages>>
editVars == <<selectedUser, isEditModalOpen>>
filterVars == <<searchTerm, debouncedSearchTerm, isFilterOpen,
                selectedLetter, sortDirection, selectedDomains>>
netVars == <<inflight, overlapped, issued>>
vars == <<token, userFilters, route, usersRendered, loginVars, listVars,
          editVars, filterVars, netVars>>

----------------------------------------------------------------------------
(* Bounds of the model *)

\* requests that may be in flight together
MaxInflight == 2
\* requests issued between two loads of the page
MaxIssued == 3
\* longest e-mail typed into the login form (SpecForm)
MaxEmailLen == 5
\* longest password typed into the login form (SpecForm)
MaxPwLen == 4
\* longest user list drawn for the filter check (SpecFilter)
MaxUsers == 2

\* password.length < 4
MinPasswordLen == 4

----------------------------------------------------------------------------
(* JavaScript values *)

\* what localStorage.getItem('token') returns for a missing key (null)
NoItem == "<null>"
\* the empty string, as text
Empty == <<>>
\* undefined, where text is expected (split('@')[1] of text holding no '@')
Undefined == <<"undefined">>
\* an absent object (null state, missing storage item): the empty option
None == <<>>
Some(v) == <<v>>

\* JavaScript truthiness of a stored item (string or null)
TruthyItem(v) == v # NoItem /\ v # ""
\* JavaScript truthiness of text
TruthyText(s) == s # Empty

Str1(a) == <<a>>
Str2(a, b) == <<a, b>>
Str3(a, b, c) == <<a, b, c>>

\* the letters of the model's texts, in alphabetical order
UpperCase == <<"A", "B", "C", "L", "O", "P", "X", "Y">>
LowerCase == <<"a", "b", "c", "l", "o", "p", "x", "y">>

\* String.prototype.toLowerCase, one character
LowerChar(c) ==
    IF \E i \in 1..Len(UpperCase) : UpperCase[i] = c
    THEN LowerCase[CHOOSE i \in 1..Len(UpperCase) : UpperCase[i] = c]
    ELSE c

\* String.prototype.toLowerCase
ToLowerCase(s) == [i \in 1..Len(s) |-> LowerChar(s[i])]

\* String.prototype.includes
Includes(s, t) ==
    \E i \in 0..(Len(s) - Len(t)) : \A j \in 1..Len(t) : s[i + j] = t[j]

\* String.prototype.charAt(0): the empty string when there is no character
CharAt0(s) == IF Len(s) = 0 THEN Empty ELSE <<s[1]>>

\* positions of '@' in s, ascending
RECURSIVE AtPositions(_, _)
AtPositions(s, i) ==
    IF i > Len(s) THEN <<>>
    ELSE IF s[i] = "@" THEN <<i>> \o AtPositions(s, i + 1)
    ELSE AtPositions(s, i + 1)

\* String.prototype.split('@')[1]: the text between the first '@' and the
\* second one (or the end); Undefined when s holds no '@'
SplitAt1(s) ==
    LET ps == AtPositions(s, 1) IN
    IF Len(ps) = 0 THEN Undefined
    ELSE IF Len(ps) = 1 THEN SubSeq(s, ps[1] + 1, Len(s))
    ELSE SubSeq(s, ps[1] + 1, ps[2] - 1)

\* collation weight of a character for localeCompare (root collation:
\* white space, then punctuation, then letters in alphabetical order; case
\* is a tertiary difference only)
Punctuation == <<" ", ".", "@">>
CharRank(c) ==
    IF \E i \in 1..Len(Punctuation) : Punctuation[i] = c
    THEN CHOOSE i \in 1..Len(Punctuation) : Punctuation[i] = c
    ELSE Len(Punctuation)
         + (CHOOSE i \in 1..Len(LowerCase) : LowerCase[i] = LowerChar(c))

\* String.prototype.localeCompare on lower-cased text: -1, 0 or 1
RECURSIVE LocaleCompare(_, _)
LocaleCompare(s, t) ==
    IF Len(s) = 0 /\ Len(t) = 0 THEN 0
    ELSE IF Len(s) = 0 THEN -1
    ELSE IF Len(t) = 0 THEN 1
    ELSE IF CharRank(s[1]) < CharRank(t[1]) THEN -1
    ELSE IF CharRank(s[1]) > CharRank(t[1]) THEN 1
    ELSE LocaleCompare(Tail(s), Tail(t))


\* the elements of a sequence
Range(s) == {s[i] : i \in 1..Len(s)}

\* new Set(array) / Set.prototype.add over an array: first occurrences, in order
RECURSIVE Dedupe(_)
Dedupe(s) ==
    IF s = <<>> THEN <<>>
    ELSE LET r == Dedupe(SubSeq(s, 1, Len(s) - 1)) IN
         IF s[Len(s)] \in Range(r) THEN r ELSE Append(r, s[Len(s)])

----------------------------------------------------------------------------
(* The Users view's derived values *)

User(i, f, l, e) == [id |-> i, first_name |-> f, last_name |-> l, email |-> e]

FullName(u) == u.first_name \o <<" ">> \o u.last_name

\* emailDomains: the distinct domains of the in-memory users, in order
EmailDomains(us) == Dedupe([i \in 1..Len(us) |-> SplitAt1(us[i].email)])

\* a filter callback that compares with the search term as typed
FilterMatchCaseSensitive(u, term, letter, domains) ==
    LET fullName == ToLowerCase(FullName(u))
        mail == ToLowerCase(u.email)
        searchMatch == IF TruthyText(term)
                       THEN Includes(fullName, term) \/ Includes(mail, term)
                       ELSE TRUE
        letterMatch == IF TruthyText(letter)
                       THEN ToLowerCase(CharAt0(u.first_name)) = ToLowerCase(letter)
                       ELSE TRUE
        domainMatch == IF Len(domains) > 0
                       THEN SplitAt1(u.email) \in Range(domains)
                       ELSE TRUE
    IN searchMatch /\ letterMatch /\ domainMatch

\* the filter callback of filteredUsers
FilterMatch(u, term, letter, domains) ==
    LET fullName == ToLowerCase(FullName(u))
        mail == ToLowerCase(u.email)
        searchMatch == IF TruthyText(term)
                       THEN Includes(fullName, ToLowerCase(term))
                            \/ Includes(mail, ToLowerCase(term))
                       ELSE TRUE
        letterMatch == IF TruthyText(letter)
                       THEN ToLowerCase(CharAt0(u.first_name)) = ToLowerCase(letter)
                       ELSE TRUE
        domainMatch == IF Len(domains) > 0
                       THEN SplitAt1(u.email) \in Range(domains)
                       ELSE TRUE
    IN searchMatch /\ letterMatch /\ domainMatch

\* the sort callback of filteredUsers
SortCompare(a, b, dir) ==
    LET nameA == ToLowerCase(FullName(a))
        nameB == ToLowerCase(FullName(b))
    IN IF dir = "asc" THEN LocaleCompare(nameA, nameB)
       ELSE LocaleCompare(nameB, nameA)

\* Array.prototype.filter with the filter callback
RECURSIVE FilterUsers(_, _, _, _)
FilterUsers(us, term, letter, domains) ==
    IF us = <<>> THEN <<>>
    ELSE IF FilterMatch(Head(us), term, letter, domains)
         THEN <<Head(us)>> \o FilterUsers(Tail(us), term, letter, domains)
         ELSE FilterUsers(Tail(us), term, letter, domains)

\* Array.prototype.sort (stable) with the sort callback: x goes before the
\* first element that the callback puts after it
RECURSIVE SortedInsert(_, _, _)
SortedInsert(x, s, dir) ==
    IF s = <<>> THEN <<x>>
    ELSE IF SortCompare(Head(s), x, dir) > 0 THEN <<x>> \o s
    ELSE <<Head(s)>> \o SortedInsert(x, Tail(s), dir)

RECURSIVE SortUsers(_, _)
SortUsers(s, dir) ==
    IF s = <<>> THEN <<>>
    ELSE SortedInsert(s[Len(s)], SortUsers(SubSeq(s, 1, Len(s) - 1), dir), dir)

FilteredUsers(us, term, letter, domains, dir) ==
    SortUsers(FilterUsers(us, term, letter, domains), dir)

\* the list the view shows
filteredUsers ==
    FilteredUsers(users, debouncedSearchTerm, selectedLetter, selectedDomains,
                  sortDirection)

emailDomains == EmailDomains(users)

----------------------------------------------------------------------------
(* The login form's validation *)

NonSpace(s, from, to) == \A i \in from..to : s[i] # " "

\* /\S+@\S+\.\S+/.test(s): some substring i..e of s is one or more
\* non-space characters, '@', one or more non-space characters, '.', one or
\* more non-space characters
EmailRegexTest(s) ==
    \E i \in 1..Len(s) : \E j \in (i + 1)..Len(s) :
    \E k \in (j + 2)..Len(s) : \E e \in (k + 1)..Len(s) :
        /\ NonSpace(s, i, j - 1)
        /\ s[j] = "@"
        /\ NonSpace(s, j + 1, k - 1)
        /\ s[k] = "."
        /\ NonSpace(s, k + 1, e)

NoError == ""

\* a validateForm that accepts any non-empty password
ValidateFormAnyPassword(em, pw) ==
    LET emailError == IF ~TruthyText(em) THEN "Email is required"
                      ELSE IF ~EmailRegexTest(em) THEN "Please enter a valid email"
                      ELSE NoError
        passwordError == IF ~TruthyText(pw) THEN "Password is required"
                         ELSE NoError
    IN [isValid |-> emailError = NoError /\ passwordError = NoError,
        errors |-> [email |-> emailError, password |-> passwordError]]

\* validateForm: the errors it sets and the verdict it returns
ValidateForm(em, pw) ==
    LET emailError == IF ~TruthyText(em) THEN "Email is required"
                      ELSE IF ~EmailRegexTest(em) THEN "Please enter a valid email"
                      ELSE NoError
        passwordError == IF ~TruthyText(pw) THEN "Password is required"
                         ELSE IF Len(pw) < MinPasswordLen
                         THEN "Password must be at least 4 characters"
                         ELSE NoError
    IN [isValid |-> emailError = NoError /\ passwordError = NoError,
        errors |-> [email |-> emailError, password |-> passwordError]]

----------------------------------------------------------------------------
(* The external API, as the client sees it *)

\* the token the login endpoint returns
ApiToken == "QpwL5tke4Pnpja7X4"

\* the records of the two pages of GET /users
ServerPage(p) ==
    IF p = 1
    THEN << User(1, Str2("B", "o"), Str2("A", "b"), Str3("b", "@", "x")),
            User(2, Str2("a", "l"), Str2("B", "a"), Str3("a", "@", "y")) >>
    ELSE << User(3, Str2("A", "l"), Str2("B", "a"), Str3("A", "@", "x")) >>

\* total_pages of GET /users
ServerTotalPages == 2

\* what a request may settle with: ok is FALSE when axios rejects; tok is
\* the token field of the login response's data ("" when it has none)
LoginResults ==
    {[ok |-> TRUE, tok |-> ApiToken], [ok |-> TRUE, tok |-> ""],
     [ok |-> FALSE, tok |-> ""]}
PlainResults == {[ok |-> TRUE, tok |-> ""], [ok |-> FALSE, tok |-> ""]}

----------------------------------------------------------------------------
(* The api client *)

NoHeader == "<none>"

\* an interceptor that sets the header without looking at the token
RequestInterceptorUnguarded(tok) == "Bearer " \o tok

\* api.interceptors.request.use: the Authorization header of a request
\* issued while localStorage 'token' is tok
RequestInterceptor(tok) ==
    IF TruthyItem(tok) THEN "Bearer " \o tok ELSE NoHeader

\* A request in flight.  users and sel are the values of the users and
\* selectedUser states that the issuing handler closed over; detached says
\* that the component whose handler awaits the request has been unmounted.
Request(k, tok, a, us, sel) ==
    [kind |-> k, auth |-> RequestInterceptor(tok), arg |-> a, users |-> us,
     sel |-> sel, detached |-> FALSE]

\* api.post('/login', ...)
LoginRequest(tok) == Request("login", tok, 0, <<>>, None)
\* api.get(`/users?page=${page}`)
GetUsersRequest(tok, page) == Request("getUsers", tok, page, <<>>, None)
\* api.put(`/users/${id}`, data)
UpdateUserRequest(tok, us, sel) ==
    Request("updateUser", tok, sel.id, us, Some(sel))
\* api.delete(`/users/${id}`)
DeleteUserRequest(tok, us, id) == Request("deleteUser", tok, id, us, None)

InFlight == BagToSet(inflight)

\* r is issued, bag being in flight and n requests having been issued
Issue(bag, n, r) ==
    /\ BagCardinality(bag) < MaxInflight
    /\ n < MaxIssued
    /\ inflight' = bag (+) SetToBag({r})
    /\ overlapped' = (bag # EmptyBag)
    /\ issued' = n + 1

\* bag stays in flight and nothing is issued
Await(bag, n) ==
    /\ inflight' = bag
    /\ overlapped' = (IF bag = EmptyBag THEN FALSE ELSE overlapped)
    /\ issued' = n

\* bag without the request r, which settles
Settled(bag, r) == bag (-) SetToBag({r})

\* the requests of the kinds ks lose their component: its setState calls
\* do nothing from now on
Detach(bag, ks) ==
    LET Det(r) == IF r.kind \in ks THEN [r EXCEPT !.detached = TRUE] ELSE r
        S == BagToSet(bag)
        T == {Det(r) : r \in S}
        Count(t) == LET P == {r \in S : Det(r) = t}
                        RECURSIVE Sum(_)
                        Sum(Q) == IF Q = {} THEN 0
                                  ELSE LET q == CHOOSE x \in Q : TRUE
                                       IN bag[q] + Sum(Q \ {q})
                    IN Sum(P)
    IN [t \in T |-> Count(t)]

LoginKinds == {"login"}
UsersKinds == {"getUsers", "updateUser", "deleteUser"}

----------------------------------------------------------------------------
(* Component state *)

\* useState initial values of Login
LoginInitial ==
    /\ email' = Empty
    /\ password' = Empty
    /\ isLoading' = FALSE
    /\ errors' = [email |-> NoError, password |-> NoError]

\* useState initial values of Users (also what is left of an unmounted view)
UsersInitial ==
    /\ users' = <<>>
    /\ loading' = TRUE
    /\ currentPage' = 1
    /\ totalPages' = 1
    /\ selectedUser' = None
    /\ isEditModalOpen' = FALSE
    /\ searchTerm' = Empty
    /\ debouncedSearchTerm' = Empty
    /\ isFilterOpen' = FALSE

\* the object the save effect serialises: Array.from(selectedDomains) keeps
\* the Set's insertion order
SavedFilters(letter, dir, domains) ==
    [selectedLetter |-> letter, sortDirection |-> dir, selectedDomains |-> domains]

\* JSON.parse(JSON.stringify(v)) of the saved object: text and arrays of
\* text come back as they were, undefined in an array comes back as null
JsonNull == <<"null">>
JsonRoundTrip(f) ==
    [f EXCEPT !.selectedDomains =
        [i \in 1..Len(f.selectedDomains) |->
            IF f.selectedDomains[i] = Undefined THEN JsonNull
            ELSE f.selectedDomains[i]]]

\* the save effect: localStorage.setItem('userFilters', JSON.stringify(...))
SaveFilters(letter, dir, domains) ==
    Some(JsonRoundTrip(SavedFilters(letter, dir, domains)))

\* the load effect: the filter states after it, given the stored item and
\* the states before it (new Set(array) drops repeated entries)
LoadFilters(item, before) ==
    IF item # None
    THEN SavedFilters(item[1].selectedLetter, item[1].sortDirection,
                      Dedupe(item[1].selectedDomains))
    ELSE before

\* The effects of mounting Users, in the order the component declares
\* them: fetchUsers (issued by the caller), the save effect with the initial
\* states, the load effect, and the save effect again for the loaded states.
MountFilters(item) ==
    LET initial == SavedFilters(Empty, "asc", <<>>)
        saved == SaveFilters(initial.selectedLetter, initial.sortDirection,
                             initial.selectedDomains)
        loaded == LoadFilters(saved, initial)
    IN [state |-> loaded,
        item |-> SaveFilters(loaded.selectedLetter, loaded.sortDirection,
                             loaded.selectedDomains)]

\* a PrivateRoute that renders its children whatever the storage holds
PrivateRouteOpen(tok) == TRUE

\* PrivateRoute: children are rendered iff the stored token is truthy
PrivateRoute(tok) == TruthyItem(tok)

\* Users is mounted: initial states, then its mount effects
MountUsers(tok, bag, n) ==
    LET m == MountFilters(userFilters) IN
    /\ UsersInitial
    /\ selectedLetter' = m.state.selectedLetter
    /\ sortDirection' = m.state.sortDirection
    /\ selectedDomains' = m.state.selectedDomains
    /\ userFilters' = m.item
    /\ Issue(bag, n, GetUsersRequest(tok, 1))

\* Users is unmounted: its state is gone
UnmountUsers ==
    /\ UsersInitial
    /\ selectedLetter' = Empty
    /\ sortDirection' = "asc"
    /\ selectedDomains' = <<>>

\* the router shows /login; keepLogin says that Login is already showing
ShowLogin(bag, n, keepLogin) ==
    /\ route' = "/login"
    /\ usersRendered' = FALSE
    /\ UnmountUsers
    /\ IF keepLogin
       THEN UNCHANGED loginVars /\ Await(Detach(bag, UsersKinds), n)
       ELSE LoginInitial /\ Await(Detach(bag, UsersKinds \cup LoginKinds), n)
    /\ UNCHANGED userFilters

\* the router shows /users with the token tok in storage: PrivateRoute
\* renders Navbar and Users, or <Navigate to="/login" />; keepUsers says
\* that Users is already showing
ShowUsers(tok, bag, n, keepUsers) ==
    IF PrivateRoute(tok)
    THEN /\ route' = "/users"
         /\ usersRendered' = TRUE
         /\ LoginInitial
         /\ IF keepUsers
            THEN /\ UNCHANGED <<listVars, editVars, filterVars, userFilters>>
                 /\ Await(Detach(bag, LoginKinds), n)
            ELSE MountUsers(tok, Detach(bag, UsersKinds \cup LoginKinds), n)
    ELSE ShowLogin(bag, n, FALSE)

----------------------------------------------------------------------------
(* Navigation by the browser *)

Paths == {"/", "/login", "/users"}

\* The page is loaded at path (address bar, refresh): nothing in memory
\* survives, storage does.  "/" is <Navigate to="/users" />.
LoadPage(path) ==
    /\ UNCHANGED token
    /\ IF path = "/login"
       THEN ShowLogin(EmptyBag, 0, FALSE)
       ELSE ShowUsers(token, EmptyBag, 0, FALSE)

\* Back / forward to the other route: requests in flight stay in flight
HistoryGo(path) ==
    /\ path # route
    /\ UNCHANGED token
    /\ IF path = "/login"
       THEN ShowLogin(inflight, issued, FALSE)
       ELSE ShowUsers(token, inflight, issued, FALSE)

----------------------------------------------------------------------------
(* Login *)

SetEmail(v) ==
    /\ route = "/login"
    /\ v # email
    /\ email' = v
    /\ errors' = [errors EXCEPT !.email = NoError]
    /\ UNCHANGED <<token, userFilters, route, usersRendered, password, isLoading,
                   listVars, editVars, filterVars, netVars>>

SetPassword(v) ==
    /\ route = "/login"
    /\ v # password
    /\ password' = v
    /\ errors' = [errors EXCEPT !.password = NoError]
    /\ UNCHANGED <<token, userFilters, route, usersRendered, email, isLoading,
                   listVars, editVars, filterVars, netVars>>

\* handleSubmit, up to the await: the submit button is disabled while isLoading
HandleSubmit ==
    /\ route = "/login"
    /\ ~isLoading
    /\ LET v == ValidateForm(email, password) IN
       /\ errors' = v.errors
       /\ IF v.isValid
          THEN /\ isLoading' = TRUE
               /\ Issue(inflight, issued, LoginRequest(token))
          ELSE UNCHANGED <<isLoading, netVars>>
    /\ UNCHANGED <<token, userFilters, route, usersRendered, email, password,
                   listVars, editVars, filterVars>>

InvalidCredentials ==
    [email |-> "Invalid email or password", password |-> "Invalid email or password"]

\* a handleSubmit that stores whatever token field a resolved login has
LoginSettledUnchecked(r, res) ==
    /\ r \in InFlight
    /\ r.kind = "login"
    /\ LET bag == Settled(inflight, r) IN
       IF res.ok
       THEN /\ token' = res.tok
            /\ ShowUsers(res.tok, bag, issued, usersRendered)
       ELSE /\ Await(bag, issued)
            /\ IF r.detached THEN UNCHANGED <<isLoading, errors>>
               ELSE /\ isLoading' = FALSE
                    /\ errors' = InvalidCredentials
            /\ UNCHANGED <<token, userFilters, route, usersRendered, email, password,
                           listVars, editVars, filterVars>>

\* handleSubmit, from the await on: login() resolves with the response's
\* data or throws
LoginSettled(r, res) ==
    /\ r \in InFlight
    /\ r.kind = "login"
    /\ LET bag == Settled(inflight, r) IN
       IF res.ok /\ TruthyItem(res.tok)
       THEN /\ token' = res.tok
            /\ ShowUsers(res.tok, bag, issued, usersRendered)
       ELSE /\ Await(bag, issued)
            /\ IF r.detached THEN UNCHANGED <<isLoading, errors>>
               ELSE /\ isLoading' = FALSE
                    /\ errors' = IF res.ok THEN errors ELSE InvalidCredentials
            /\ UNCHANGED <<token, userFilters, route, usersRendered, email, password,
                           listVars, editVars, filterVars>>

----------------------------------------------------------------------------
(* Navbar *)

\* a handleLogout that navigates and leaves the token in storage
HandleLogoutKeepsToken ==
    /\ usersRendered
    /\ UNCHANGED token
    /\ ShowLogin(inflight, issued, FALSE)

HandleLogout ==
    /\ usersRendered
    /\ token' = NoItem
    /\ ShowLogin(inflight, issued, FALSE)

----------------------------------------------------------------------------
(* Users: page fetch *)

sessionVars == <<token, route, usersRendered, loginVars>>

\* the view shows its content (not the loading spinner)
Shown == usersRendered /\ ~loading

\* a pagination button: setCurrentPage(page), then the effect on
\* currentPage calls fetchUsers
ClickPage(page) ==
    /\ Shown
    /\ page \in 1..totalPages
    /\ page # currentPage
    /\ currentPage' = page
    /\ Issue(inflight, issued, GetUsersRequest(token, page))
    /\ UNCHANGED <<sessionVars, userFilters, users, loading, totalPages,
                   editVars, filterVars>>

\* a fetchUsers without its finally block: the spinner goes only on success
FetchSettledNoFinally(r, res) ==
    /\ r \in InFlight
    /\ r.kind = "getUsers"
    /\ Await(Settled(inflight, r), issued)
    /\ IF r.detached \/ ~res.ok THEN UNCHANGED <<users, totalPages, loading>>
       ELSE /\ users' = ServerPage(r.arg)
            /\ totalPages' = ServerTotalPages
            /\ loading' = FALSE
    /\ UNCHANGED <<sessionVars, userFilters, currentPage, editVars, filterVars>>

\* fetchUsers, from the await on
FetchSettled(r, res) ==
    /\ r \in InFlight
    /\ r.kind = "getUsers"
    /\ Await(Settled(inflight, r), issued)
    /\ IF r.detached THEN UNCHANGED <<users, totalPages, loading>>
       ELSE /\ users' = IF res.ok THEN ServerPage(r.arg) ELSE users
            /\ totalPages' = IF res.ok THEN ServerTotalPages ELSE totalPages
            /\ loading' = FALSE
    /\ UNCHANGED <<sessionVars, userFilters, currentPage, editVars, filterVars>>

----------------------------------------------------------------------------
(* Users: edit and delete *)

\* users.filter(user => user.id !== userId)
RECURSIVE WithoutId(_, _)
WithoutId(us, id) ==
    IF us = <<>> THEN <<>>
    ELSE IF Head(us).id # id THEN <<Head(us)>> \o WithoutId(Tail(us), id)
    ELSE WithoutId(Tail(us), id)

\* users.map(user => user.id === selectedUser.id ? selectedUser : user)
Replaced(us, sel) ==
    [i \in 1..Len(us) |-> IF us[i].id = sel.id THEN sel ELSE us[i]]

HandleEdit(u) ==
    /\ Shown
    /\ u \in Range(filteredUsers)
    /\ selectedUser' = Some(u)
    /\ isEditModalOpen' = TRUE
    /\ UNCHANGED <<sessionVars, userFilters, listVars, filterVars, netVars>>

ModalShown == Shown /\ isEditModalOpen /\ selectedUser # None

\* the onChange handlers of the modal's three inputs
TypeFirstName(v) ==
    /\ ModalShown
    /\ v # selectedUser[1].first_name
    /\ selectedUser' = Some([selectedUser[1] EXCEPT !.first_name = v])
    /\ UNCHANGED <<sessionVars, userFilters, listVars, isEditModalOpen,
                   filterVars, netVars>>

TypeLastName(v) ==
    /\ ModalShown
    /\ v # selectedUser[1].last_name
    /\ selectedUser' = Some([selectedUser[1] EXCEPT !.last_name = v])
    /\ UNCHANGED <<sessionVars, userFilters, listVars, isEditModalOpen,
                   filterVars, netVars>>

TypeEmail(v) ==
    /\ ModalShown
    /\ v # selectedUser[1].email
    /\ selectedUser' = Some([selectedUser[1] EXCEPT !.email = v])
    /\ UNCHANGED <<sessionVars, userFilters, listVars, isEditModalOpen,
                   filterVars, netVars>>

\* the modal's Cancel button
CancelEdit ==
    /\ ModalShown
    /\ isEditModalOpen' = FALSE
    /\ UNCHANGED <<sessionVars, userFilters, listVars, selectedUser, filterVars,
                   netVars>>

\* handleUpdate, up to the await (the form's submit)
HandleUpdate ==
    /\ ModalShown
    /\ Issue(inflight, issued, UpdateUserRequest(token, users, selectedUser[1]))
    /\ UNCHANGED <<sessionVars, userFilters, listVars, editVars, filterVars>>

\* handleUpdate, from the await on
UpdateSettled(r, res) ==
    /\ r \in InFlight
    /\ r.kind = "updateUser"
    /\ Await(Settled(inflight, r), issued)
    /\ IF res.ok /\ ~r.detached
       THEN /\ users' = Replaced(r.users, r.sel[1])
            /\ isEditModalOpen' = FALSE
       ELSE UNCHANGED <<users, isEditModalOpen>>
    /\ UNCHANGED <<sessionVars, userFilters, loading, currentPage, totalPages,
                   selectedUser, filterVars>>

\* a handleDelete that removes the user before the call is made
HandleDeleteOptimistic(userId) ==
    /\ Shown
    /\ \E u \in Range(filteredUsers) : u.id = userId
    /\ Issue(inflight, issued, DeleteUserRequest(token, users, userId))
    /\ users' = WithoutId(users, userId)
    /\ UNCHANGED <<sessionVars, userFilters, loading, currentPage, totalPages,
                   editVars, filterVars>>

\* handleDelete, up to the await (the Delete button of a listed user)
HandleDelete(userId) ==
    /\ Shown
    /\ \E u \in Range(filteredUsers) : u.id = userId
    /\ Issue(inflight, issued, DeleteUserRequest(token, users, userId))
    /\ UNCHANGED <<sessionVars, userFilters, listVars, editVars, filterVars>>

\* a handleDelete that removes the user whether or not the call failed
DeleteSettledAlways(r, res) ==
    /\ r \in InFlight
    /\ r.kind = "deleteUser"
    /\ Await(Settled(inflight, r), issued)
    /\ users' = IF ~r.detached THEN WithoutId(r.users, r.arg) ELSE users
    /\ UNCHANGED <<sessionVars, userFilters, loading, currentPage, totalPages,
                   editVars, filterVars>>

\* handleDelete, from the await on
DeleteSettled(r, res) ==
    /\ r \in InFlight
    /\ r.kind = "deleteUser"
    /\ Await(Settled(inflight, r), issued)
    /\ users' = IF res.ok /\ ~r.detached THEN WithoutId(r.users, r.arg) ELSE users
    /\ UNCHANGED <<sessionVars, userFilters, loading, currentPage, totalPages,
                   editVars, filterVars>>

----------------------------------------------------------------------------
(* Users: search and filters *)

\* the filter states, and the save effect that follows their change
SetFilters(letter, dir, domains) ==
    /\ selectedLetter' = letter
    /\ sortDirection' = dir
    /\ selectedDomains' = domains
    /\ userFilters' = SaveFilters(letter, dir, domains)

SetSearchTerm(v) ==
    /\ Shown
    /\ v # searchTerm
    /\ searchTerm' = v
    /\ UNCHANGED <<sessionVars, userFilters, listVars, editVars, debouncedSearchTerm,
                   isFilterOpen, selectedLetter, sortDirection, selectedDomains,
                   netVars>>

\* useDebounce(searchTerm, 300): the debounced value follows the term
Debounce ==
    /\ usersRendered
    /\ debouncedSearchTerm # searchTerm
    /\ debouncedSearchTerm' = searchTerm
    /\ UNCHANGED <<sessionVars, userFilters, listVars, editVars, searchTerm,
                   isFilterOpen, selectedLetter, sortDirection, selectedDomains,
                   netVars>>

ToggleFilterPanel ==
    /\ Shown
    /\ isFilterOpen' = ~isFilterOpen
    /\ UNCHANGED <<sessionVars, userFilters, listVars, editVars, searchTerm,
                   debouncedSearchTerm, selectedLetter, sortDirection,
                   selectedDomains, netVars>>

filterFrame == <<sessionVars, listVars, editVars, searchTerm, debouncedSearchTerm,
                 isFilterOpen, netVars>>

\* a letter button: setSelectedLetter(selectedLetter === letter ? '' : letter)
ClickLetter(letter) ==
    /\ Shown /\ isFilterOpen
    /\ SetFilters(IF selectedLetter = letter THEN Empty ELSE letter,
                  sortDirection, selectedDomains)
    /\ UNCHANGED filterFrame

\* the A-Z / Z-A buttons
ClickSort(dir) ==
    /\ Shown /\ isFilterOpen
    /\ dir # sortDirection
    /\ SetFilters(selectedLetter, dir, selectedDomains)
    /\ UNCHANGED filterFrame

\* Set.prototype.delete
RECURSIVE SetDelete(_, _)
SetDelete(s, d) ==
    IF s = <<>> THEN <<>>
    ELSE IF Head(s) = d THEN Tail(s)
    ELSE <<Head(s)>> \o SetDelete(Tail(s), d)

\* toggleDomain's new set
ToggledDomains(domains, d) ==
    IF d \in Range(domains) THEN SetDelete(domains, d) ELSE Append(domains, d)

\* a domain button of the filter panel
ToggleDomain(d) ==
    /\ Shown /\ isFilterOpen
    /\ d \in Range(emailDomains)
    /\ SetFilters(selectedLetter, sortDirection, ToggledDomains(selectedDomains, d))
    /\ UNCHANGED filterFrame

----------------------------------------------------------------------------
(* What the user types and clicks *)

ValidEmail == <<"a", "@", "a", ".", "a">>
ValidPassword == <<"p", "p", "p", "p">>
TypedEmails == {Empty, ValidEmail}
TypedPasswords == {Empty, ValidPassword}
\* typed into the modal: a first name no user has, the last name and the
\* e-mail that some user of the server's pages already has
TypedFirstNames == {Str2("C", "a")}
TypedLastNames == {Str2("B", "a")}
TypedUserEmails == {Str3("a", "@", "y")}
TypedSearchTerms == {Empty, Str2("A", "L"), Str3("l", " ", "b"), Str2("@", "X")}
Letters == {Str1("A"), Str1("B")}
Directions == {"asc", "desc"}

Navigation ==
    \/ \E path \in Paths : LoadPage(path)
    \/ \E path \in Paths : HistoryGo(path)

LoginActions ==
    \/ \E v \in TypedEmails : SetEmail(v)
    \/ \E v \in TypedPasswords : SetPassword(v)
    \/ HandleSubmit
    \/ \E r \in InFlight, res \in LoginResults : LoginSettled(r, res)

ListActions ==
    \/ \E page \in 1..ServerTotalPages : ClickPage(page)
    \/ \E r \in InFlight, res \in PlainResults : FetchSettled(r, res)

UpdateActions ==
    \/ \E u \in Range(filteredUsers) : HandleEdit(u)
    \/ HandleUpdate
    \/ \E r \in InFlight, res \in PlainResults : UpdateSettled(r, res)

ModalActions ==
    \/ \E v \in TypedFirstNames : TypeFirstName(v)
    \/ \E v \in TypedLastNames : TypeLastName(v)
    \/ \E v \in TypedUserEmails : TypeEmail(v)
    \/ CancelEdit

DeleteActions ==
    \/ \E u \in Range(filteredUsers) : HandleDelete(u.id)
    \/ \E r \in InFlight, res \in PlainResults : DeleteSettled(r, res)

SearchActions ==
    \/ \E v \in TypedSearchTerms : SetSearchTerm(v)
    \/ Debounce

PanelActions ==
    \/ ToggleFilterPanel
    \/ \E l \in Letters : ClickLetter(l)
    \/ \E d \in Directions : ClickSort(d)
    \/ \E d \in Range(emailDomains) : ToggleDomain(d)

----------------------------------------------------------------------------
(* The application: session, routes and the requests of the Users view *)

\* the browser's first load of "/", with empty storage: Navigate to /users,
\* PrivateRoute, Navigate to /login
Init ==
    /\ token = NoItem
    /\ userFilters = None
    /\ route = "/login"
    /\ usersRendered = FALSE
    /\ email = Empty
    /\ password = Empty
    /\ isLoading = FALSE
    /\ errors = [email |-> NoError, password |-> NoError]
    /\ users = <<>>
    /\ loading = TRUE
    /\ currentPage = 1
    /\ totalPages = 1
    /\ selectedUser = None
    /\ isEditModalOpen = FALSE
    /\ searchTerm = Empty
    /\ debouncedSearchTerm = Empty
    /\ isFilterOpen = FALSE
    /\ selectedLetter = Empty
    /\ sortDirection = "asc"
    /\ selectedDomains = <<>>
    /\ inflight = EmptyBag
    /\ overlapped = FALSE
    /\ issued = 0

Next ==
    \/ Navigation
    \/ LoginActions
    \/ HandleLogout
    \/ ListActions
    \/ UpdateActions
    \/ DeleteActions

Spec == Init /\ [][Next]_vars

----------------------------------------------------------------------------
(* The Users view of a logged-in user *)

\* Users after the page is loaded at /users with the token stored: either
\* the first fetch is in flight (fetching: the spinner shows), or it has
\* settled and the list us is in memory
UsersLoaded(us, fetching) ==
    /\ token = ApiToken
    /\ userFilters = SaveFilters(Empty, "asc", <<>>)
    /\ route = "/users"
    /\ usersRendered = TRUE
    /\ email = Empty
    /\ password = Empty
    /\ isLoading = FALSE
    /\ errors = [email |-> NoError, password |-> NoError]
    /\ users = us
    /\ loading = fetching
    /\ currentPage = 1
    /\ totalPages = IF fetching THEN 1 ELSE ServerTotalPages
    /\ selectedUser = None
    /\ isEditModalOpen = FALSE
    /\ searchTerm = Empty
    /\ debouncedSearchTerm = Empty
    /\ isFilterOpen = FALSE
    /\ selectedLetter = Empty
    /\ sortDirection = "asc"
    /\ selectedDomains = <<>>
    /\ inflight = IF fetching THEN SetToBag({GetUsersRequest(ApiToken, 1)})
                  ELSE EmptyBag
    /\ overlapped = FALSE
    /\ issued = 1

\* paging, editing and deleting
InitEdit == UsersLoaded(<<>>, TRUE)

NextEdit ==
    \/ ListActions
    \/ UpdateActions
    \/ ModalActions
    \/ DeleteActions

SpecEdit == InitEdit /\ [][NextEdit]_vars

\* editing and deleting on the first page once it is fetched, with no
\* further page fetch
InitOverlap == UsersLoaded(ServerPage(1), FALSE)

NextOverlap ==
    \/ UpdateActions
    \/ ModalActions
    \/ DeleteActions

SpecOverlap == InitOverlap /\ [][NextOverlap]_vars

\* paging, editing and deleting when every request succeeds
Succeeded == [ok |-> TRUE, tok |-> ""]

InitPages == UsersLoaded(<<>>, TRUE)

NextPages ==
    \/ \E page \in 1..ServerTotalPages : ClickPage(page)
    \/ \E r \in InFlight : FetchSettled(r, Succeeded)
    \/ \E u \in Range(filteredUsers) : HandleEdit(u)
    \/ ModalActions
    \/ HandleUpdate
    \/ \E r \in InFlight : UpdateSettled(r, Succeeded)
    \/ \E u \in Range(filteredUsers) : HandleDelete(u.id)
    \/ \E r \in InFlight : DeleteSettled(r, Succeeded)

SpecPages == InitPages /\ [][NextPages]_vars

\* the filter panel while the list changes: page changes, deletes and
\* updates that change an e-mail
InitDomains == UsersLoaded(ServerPage(1), FALSE)

NextDomains ==
    \/ PanelActions
    \/ ListActions
    \/ DeleteActions
    \/ UpdateActions
    \/ \E v \in TypedUserEmails : TypeEmail(v)

SpecDomains == InitDomains /\ [][NextDomains]_vars

----------------------------------------------------------------------------
(* The filter panel and the search box over user lists of any content *)

\* what a user's record may hold after edits: names differing in case
\* only, an empty first name, an e-mail with no '@'
ProfilePool ==
    { [first_name |-> Str2("A", "l"), last_name |-> Str2("B", "a"),
       email |-> Str3("a", "@", "x")],
      [first_name |-> Str2("a", "l"), last_name |-> Str2("b", "a"),
       email |-> Str3("A", "@", "y")],
      [first_name |-> Str2("B", "o"), last_name |-> Str2("A", "b"),
       email |-> Str3("b", "@", "x")],
      [first_name |-> Empty, last_name |-> Str2("A", "b"), email |-> Empty] }

\* the user lists of length n over the pool, the ids in the server's order
RECURSIVE ListsOfLen(_)
ListsOfLen(n) ==
    IF n = 0 THEN {<<>>}
    ELSE {Append(l, User(n, q.first_name, q.last_name, q.email)) :
              l \in ListsOfLen(n - 1), q \in ProfilePool}

DrawnLists == UNION {ListsOfLen(n) : n \in 0..MaxUsers}

InitFilter == \E us \in DrawnLists : UsersLoaded(us, FALSE)

NextFilter ==
    \/ SearchActions
    \/ PanelActions

SpecFilter == InitFilter /\ [][NextFilter]_vars

----------------------------------------------------------------------------
(* The filter preferences across mounts of the Users view *)

InitPrefs == UsersLoaded(<<>>, TRUE)

NextPrefs ==
    \/ Navigation
    \/ HandleLogout
    \/ LoginActions
    \/ \E r \in InFlight, res \in PlainResults : FetchSettled(r, res)
    \/ PanelActions

SpecPrefs == InitPrefs /\ [][NextPrefs]_vars

----------------------------------------------------------------------------
(* The login form over typed text of any content *)

LoginChars == {"a", "@", ".", " "}

\* the texts of length n over the characters cs
TextsOfLen(cs, n) == [1..n -> cs]

TypedEmailTexts == UNION {TextsOfLen(LoginChars, n) : n \in 0..MaxEmailLen}
TypedPasswordTexts == UNION {TextsOfLen({"p"}, n) : n \in 0..MaxPwLen}

\* Login with text typed into both inputs, before a submit
InitForm ==
    /\ token = NoItem
    /\ userFilters = None
    /\ route = "/login"
    /\ usersRendered = FALSE
    /\ email \in TypedEmailTexts
    /\ password \in TypedPasswordTexts
    /\ isLoading = FALSE
    /\ errors = [email |-> NoError, password |-> NoError]
    /\ users = <<>>
    /\ loading = TRUE
    /\ currentPage = 1
    /\ totalPages = 1
    /\ selectedUser = None
    /\ isEditModalOpen = FALSE
    /\ searchTerm = Empty
    /\ debouncedSearchTerm = Empty
    /\ isFilterOpen = FALSE
    /\ selectedLetter = Empty
    /\ sortDirection = "asc"
    /\ selectedDomains = <<>>
    /\ inflight = EmptyBag
    /\ overlapped = FALSE
    /\ issued = 0

NextForm ==
    \/ HandleSubmit
    \/ \E r \in InFlight, res \in LoginResults : LoginSettled(r, res)

SpecForm == InitForm /\ [][NextForm]_vars

----------------------------------------------------------------------------
(* Properties: session and routes (Spec) *)

TokenStored == token # NoItem /\ token # ""

\* the requests a step issues: those in flight after it, attached to their
\* component, in more copies than before it
CopiesOf(r, bag) == IF r \in BagToSet(bag) THEN bag[r] ELSE 0
NewlyIssued(r) ==
    /\ r \in BagToSet(inflight')
    /\ ~r.detached
    /\ CopiesOf(r, inflight') > CopiesOf(r, inflight)

\* C1: the Users view (with its Navbar) is rendered only while localStorage
\* holds a non-empty token; with no token stored the router is at /login,
\* whatever was entered.
C1_ProtectedRoute ==
    /\ usersRendered => TokenStored
    /\ ~TokenStored => route = "/login" /\ ~usersRendered

\* the Users view showing its list to a logged-in user
C1_Witness == usersRendered /\ TokenStored /\ ~loading /\ users # <<>>

\* C2: the second half of handleSubmit stores the token and navigates to
\* /users exactly when the login call resolved with a non-empty token;
\* otherwise, and in the first half, the token and the route are untouched.
C2_LoginStoresToken ==
    [][ /\ \A r \in InFlight, res \in LoginResults :
              LoginSettled(r, res) =>
                  IF res.ok /\ res.tok # ""
                  THEN token' = res.tok /\ route' = "/users"
                  ELSE token' = token /\ route' = route
        /\ HandleSubmit => token' = token /\ route' = route ]_vars

\* a login has just resolved with a token: it is stored and Users is mounted
C2_Witness ==
    /\ token = ApiToken
    /\ route = "/users"
    /\ loading
    /\ issued = 2
    /\ \E r \in InFlight : r.kind = "getUsers" /\ ~r.detached

\* C3: every request issued carries "Bearer <t>", t being the stored token
\* when it is issued, and no Authorization header when no token is stored.
C3_BearerReplay ==
    [][ \A r \in BagToSet(inflight') :
            NewlyIssued(r) =>
                r.auth = IF token' = NoItem \/ token' = "" THEN NoHeader
                         ELSE "Bearer " \o token' ]_vars

\* a login request issued with no token stored is in flight beside a
\* getUsers request that carries the token
C3_Witness ==
    \E r1, r2 \in InFlight :
        /\ r1.kind = "login" /\ r1.auth = NoHeader
        /\ r2.kind = "getUsers" /\ r2.auth = "Bearer " \o ApiToken

\* C9: handleLogout removes the token; the token changes only by a logout
\* (to none) or by a login that resolved with a token (to that token); and
\* while no token is stored the Users view is not rendered and no request
\* issued carries an Authorization header.
C9_SessionLifecycle ==
    [][ /\ HandleLogout => token' = NoItem
        /\ token' # token =>
              \/ HandleLogout /\ token' = NoItem
              \/ \E r \in InFlight, res \in LoginResults :
                     /\ LoginSettled(r, res)
                     /\ res.ok /\ res.tok # ""
                     /\ token' = res.tok
        /\ token' = NoItem =>
              /\ ~usersRendered'
              /\ \A r \in BagToSet(inflight') :
                     NewlyIssued(r) => r.auth = NoHeader ]_vars

\* logged out with a request of the Users view still in flight, and a login
\* request issued since
C9_Witness ==
    /\ token = NoItem
    /\ \E r \in InFlight : r.kind \in UsersKinds /\ r.detached /\ r.auth # NoHeader
    /\ \E r \in InFlight : r.kind = "login" /\ r.auth = NoHeader

----------------------------------------------------------------------------
(* Properties: the filtered list (SpecFilter) *)

\* the lower-case form of a text
LowerOf == [c \in {"A", "B", "C", "L", "O", "P", "X", "Y"} |->
               CASE c = "A" -> "a" [] c = "B" -> "b" [] c = "C" -> "c"
                 [] c = "L" -> "l" [] c = "O" -> "o" [] c = "P" -> "p"
                 [] c = "X" -> "x" [] c = "Y" -> "y"]
Lowered(s) == [i \in 1..Len(s) |-> IF s[i] \in DOMAIN LowerOf THEN LowerOf[s[i]]
                                   ELSE s[i]]

Contains(s, t) ==
    t = <<>> \/ \E i, j \in 1..Len(s) : i <= j /\ SubSeq(s, i, j) = t

\* the part of an e-mail after its '@'; Undefined when it has none
AfterAt(e) ==
    IF \A i \in 1..Len(e) : e[i] # "@" THEN Undefined
    ELSE LET p == CHOOSE i \in 1..Len(e) :
                      e[i] = "@" /\ \A j \in 1..(i - 1) : e[j] # "@"
         IN SubSeq(e, p + 1, Len(e))

Passes(u) ==
    /\ \/ debouncedSearchTerm = <<>>
       \/ Contains(Lowered(u.first_name \o <<" ">> \o u.last_name),
                   Lowered(debouncedSearchTerm))
       \/ Contains(Lowered(u.email), Lowered(debouncedSearchTerm))
    /\ \/ selectedLetter = <<>>
       \/ /\ u.first_name # <<>>
          /\ Lowered(<<u.first_name[1]>>) = Lowered(selectedLetter)
    /\ \/ selectedDomains = <<>>
       \/ \E k \in 1..Len(selectedDomains) : selectedDomains[k] = AfterAt(u.email)

NameKey(u) == Lowered(u.first_name \o <<" ">> \o u.last_name)

\* C4: filteredUsers holds exactly the in-memory users that pass the search,
\* letter and domain filters, each once and none other, ordered by
\* lower-cased full name, ascending for 'asc' and descending for 'desc'.
C4_FilteredUsers ==
    usersRendered =>
        LET f == filteredUsers IN
        /\ \A i \in 1..Len(f) : \E k \in 1..Len(users) : users[k] = f[i]
        /\ \A k \in 1..Len(users) :
               Cardinality({i \in 1..Len(f) : f[i] = users[k]})
                   = IF Passes(users[k]) THEN 1 ELSE 0
        /\ \A i, j \in 1..Len(f) :
               i < j =>
                   IF sortDirection = "asc"
                   THEN LocaleCompare(NameKey(f[i]), NameKey(f[j])) <= 0
                   ELSE LocaleCompare(NameKey(f[i]), NameKey(f[j])) >= 0

\* all three filters are active with an upper-case search term, the order
\* is descending, and the list shown holds some users and leaves some out
C4_Witness ==
    /\ debouncedSearchTerm = Str2("A", "L")
    /\ selectedLetter # <<>>
    /\ selectedDomains # <<>>
    /\ sortDirection = "desc"
    /\ Len(filteredUsers) >= 1
    /\ Len(filteredUsers) < Len(users)

----------------------------------------------------------------------------
(* Properties: the login form (SpecForm) *)

\* some '@' follows a non-space character and is followed, after one or
\* more non-space characters, by a '.' that a non-space character follows
EmailShape(s) ==
    \E p, q \in 1..Len(s) :
        /\ s[p] = "@" /\ s[q] = "."
        /\ p >= 2 /\ s[p - 1] # " "
        /\ q >= p + 2 /\ \A i \in (p + 1)..(q - 1) : s[i] # " "
        /\ q < Len(s) /\ s[q + 1] # " "

EmailAccepted == email # <<>> /\ EmailShape(email)
PasswordAccepted == password # <<>> /\ Len(password) >= 4

\* C10: handleSubmit issues a login request only for an accepted e-mail and
\* an accepted password; otherwise nothing is sent, the token is unchanged
\* and each field gets its own message (none for an accepted field).
C10_ValidationGate ==
    [][ HandleSubmit =>
          /\ inflight' # inflight => EmailAccepted /\ PasswordAccepted
          /\ ~(EmailAccepted /\ PasswordAccepted) =>
                /\ inflight' = inflight /\ issued' = issued
                /\ token' = token
                /\ ~isLoading'
                /\ errors'.email =
                       IF email = <<>> THEN "Email is required"
                       ELSE IF ~EmailShape(email) THEN "Please enter a valid email"
                       ELSE ""
                /\ errors'.password =
                       IF password = <<>> THEN "Password is required"
                       ELSE IF Len(password) < 4
                       THEN "Password must be at least 4 characters"
                       ELSE "" ]_vars

\* a submit refused for both fields: an e-mail with a space between '@' and
\* '.', and a password of three characters
C10_Witness ==
    /\ email = <<"a", "@", " ", ".", "a">>
    /\ Len(password) = 3
    /\ errors = [email |-> "Please enter a valid email",
                 password |-> "Password must be at least 4 characters"]
    /\ inflight = EmptyBag

----------------------------------------------------------------------------
(* Properties: filter preferences across mounts (SpecPrefs) *)

FiltersNow(letter, dir, domains) ==
    [selectedLetter |-> letter, sortDirection |-> dir, selectedDomains |-> domains]

\* C5: the filter preferences the view has when it is unmounted are in
\* storage, stay there while it is unmounted, and are the view's
\* preferences once it is mounted again and its mount effects have run.
C5_PreferencesRestored ==
    [][ /\ usersRendered /\ ~usersRendered' =>
              userFilters' = <<FiltersNow(selectedLetter, sortDirection,
                                          selectedDomains)>>
        /\ ~usersRendered /\ ~usersRendered' => userFilters' = userFilters
        /\ ~usersRendered /\ usersRendered' /\ userFilters # <<>> =>
              FiltersNow(selectedLetter', sortDirection', selectedDomains')
                  = userFilters[1] ]_vars

----------------------------------------------------------------------------
(* Properties: edit and delete (SpecEdit) *)

\* us without the users whose id is id, the others in their order
Removed(us, id) == SelectSeq(us, LAMBDA u : u.id # id)

\* us with the user whose id is rec.id replaced by rec
Edited(us, rec) == [i \in DOMAIN us |-> IF us[i].id = rec.id THEN rec ELSE us[i]]

\* C6: a handleDelete whose request was alone in flight from its issue on
\* leaves, when the call succeeds, the list without the users of that id and
\* otherwise as it was; when the call fails it leaves the list unchanged.
C6_DeleteReconciliation ==
    [][ \A r \in InFlight, res \in PlainResults :
            DeleteSettled(r, res) /\ ~overlapped /\ ~r.detached =>
                users' = IF res.ok THEN Removed(users, r.arg) ELSE users ]_vars

\* one user is left of the first page after a delete that ran alone
C6_Witness ==
    /\ usersRendered /\ ~loading
    /\ currentPage = 1
    /\ Len(users) = 1 /\ users[1] \in Range(ServerPage(1))
    /\ inflight = EmptyBag
    /\ issued = 2

\* the users of us whose id is not id, in their order
Others(us, id) == SelectSeq(us, LAMBDA u : u.id # id)

\* what a successful update of rec may do to the list: the users of
\* rec's id now are rec, every other user is where and what it was
UpdateApplied(rec) ==
    /\ \A i \in DOMAIN users' : users'[i].id = rec.id => users'[i] = rec
    /\ Others(users', rec.id) = Others(users, rec.id)

\* C7: the list changes by editing only when handleUpdate's call succeeds:
\* then the user with the edited id is replaced by the edited record, every
\* other user is unchanged and the modal closes; opening the modal, typing
\* in it, Cancel, the submit and a failed call leave the list unchanged,
\* and a failed call leaves the modal as it is.
C7_UpdateReconciliation ==
    [][ /\ \A r \in InFlight, res \in PlainResults :
              UpdateSettled(r, res) /\ ~r.detached =>
                  IF res.ok
                  THEN UpdateApplied(r.sel[1]) /\ ~isEditModalOpen'
                  ELSE users' = users /\ isEditModalOpen' = isEditModalOpen
        /\ selectedUser' # selectedUser => users' = users
        /\ isEditModalOpen /\ ~isEditModalOpen' /\ inflight' = inflight =>
              users' = users
        /\ HandleUpdate => users' = users ]_vars

\* the same for a handleUpdate whose request was alone in flight from its
\* issue on, where the code does what C7 says
UpdateAloneReconciles ==
    [][ /\ \A r \in InFlight, res \in PlainResults :
              UpdateSettled(r, res) /\ ~r.detached /\ ~overlapped =>
                  IF res.ok
                  THEN users' = Edited(users, r.sel[1]) /\ ~isEditModalOpen'
                  ELSE users' = users /\ isEditModalOpen' = isEditModalOpen
        /\ selectedUser' # selectedUser => users' = users
        /\ isEditModalOpen /\ ~isEditModalOpen' /\ inflight' = inflight =>
              users' = users
        /\ HandleUpdate => users' = users ]_vars

\* C8 as stated: the list reflects a delete or an update as soon as the
\* user triggers it, before the call has settled.
C8_Optimistic ==
    [][ /\ \A u \in Range(users) :
              HandleDelete(u.id) => users' = Removed(users, u.id)
        /\ HandleUpdate => users' = Edited(users, selectedUser[1]) ]_vars

\* C8 amended: triggering a delete or an update leaves the list as it is;
\* the list changes only when a request settles with success (a step that
\* changes the list is no handleDelete or handleUpdate click, and is the
\* settling of a fetch, a delete or an update that succeeded).
C8_AfterSuccess ==
    [][ users' # users =>
            /\ \A u \in Range(users) : ~HandleDelete(u.id)
            /\ ~HandleUpdate
            /\ \E r \in InFlight :
                   \/ FetchSettled(r, [ok |-> TRUE, tok |-> ""])
                   \/ DeleteSettled(r, [ok |-> TRUE, tok |-> ""])
                   \/ UpdateSettled(r, [ok |-> TRUE, tok |-> ""]) ]_vars

\* a delete and an update are in flight and the list still holds the user
\* to delete and the unedited record
C8_Witness ==
    \E d, e \in InFlight :
        /\ d.kind = "deleteUser" /\ e.kind = "updateUser"
        /\ \E u \in Range(users) : u.id = d.arg
        /\ \E u \in Range(users) : u.id = e.arg /\ u # e.sel[1]

----------------------------------------------------------------------------
(* Properties: page fetch (Spec) *)

\* the fetches of the mounted Users view that have not settled
PendingFetches(bag) ==
    {r \in BagToSet(bag) : r.kind = "getUsers" /\ ~r.detached}

\* C11: when a fetchUsers of the mounted view settles, a success replaces
\* users and totalPages by the data and total_pages of the page it asked
\* for, a failure leaves both as they were, and either way loading is
\* false afterwards; the view shows the spinner only while a fetch of its
\* own is still pending, and a view that has left the spinner shows it
\* again only when the browser navigates and mounts it anew.
C11_FetchOutcome ==
    [][ /\ \A r \in InFlight, res \in PlainResults :
              FetchSettled(r, res) /\ ~r.detached =>
                  /\ users' = IF res.ok THEN ServerPage(r.arg) ELSE users
                  /\ totalPages' = IF res.ok THEN ServerTotalPages
                                   ELSE totalPages
                  /\ ~loading'
        /\ usersRendered' /\ loading' => PendingFetches(inflight') # {}
        /\ usersRendered /\ usersRendered' /\ ~loading /\ loading' =>
              Navigation ]_vars

\* the first fetch of the view has failed: no spinner, the list is empty
\* and totalPages is what useState gave it
C11_Witness ==
    /\ usersRendered /\ ~loading
    /\ users = <<>> /\ totalPages = 1
    /\ PendingFetches(inflight) = {}

----------------------------------------------------------------------------
(* Properties: overlapping requests (SpecOverlap) *)

\* the ids of the users of us
Ids(us) == {us[i].id : i \in DOMAIN us}

\* C12: with no page fetch, a user that has left the list (its delete
\* succeeded) does not come back when a later request settles, and the
\* record an update has put in the list is not put back to an earlier one:
\* a settling delete changes no record of the list, a settling update
\* changes none but the one it edited.
C12_DeletedStayDeleted ==
    [][ /\ Ids(users') \subseteq Ids(users)
        /\ \A r \in InFlight, res \in PlainResults :
              DeleteSettled(r, res) => Range(users') \subseteq Range(users)
        /\ \A r \in InFlight, res \in PlainResults :
              UpdateSettled(r, res) /\ res.ok =>
                  \A u \in Range(users') :
                      u \in Range(users) \/ u = r.sel[1] ]_vars

----------------------------------------------------------------------------
(* Properties: the page shown (SpecPages) *)

\* C13: when every request has succeeded and none is outstanding, the
\* users in memory are records of the page numbered currentPage.
C13_DisplayedPage ==
    usersRendered /\ inflight = EmptyBag =>
        Ids(users) \subseteq Ids(ServerPage(currentPage))

----------------------------------------------------------------------------
(* Properties: the domain filter (SpecDomains) *)

\* C14: every selected domain is one of emailDomains, the domains the
\* filter panel offers as toggle buttons, and toggling a domain twice gives
\* the selection back.
C14_SelectedDomainsOffered ==
    usersRendered =>
        /\ Range(selectedDomains) \subseteq Range(emailDomains)
        /\ \A d \in Range(emailDomains) :
              Range(ToggledDomains(ToggledDomains(selectedDomains, d), d))
                  = Range(selectedDomains)

\* the second half of C14 alone, which the code satisfies
ToggleTwiceRestores ==
    \A d \in Range(emailDomains) :
        Range(ToggledDomains(ToggledDomains(selectedDomains, d), d))
            = Range(selectedDomains)

----------------------------------------------------------------------------
(* Properties: the login request (Spec) *)

\* the number of login requests in flight
LoginsInFlight ==
    BagCardinality([r \in {x \in InFlight : x.kind = "login"} |-> inflight[r]])

\* C15: isLoading is true exactly while a login request is outstanding,
\* and at most one login request is in flight.
C15_LoginInFlight ==
    /\ isLoading <=> LoginsInFlight > 0
    /\ LoginsInFlight <= 1

\* the login requests whose Login component is still mounted
MountedLogins == {r \in InFlight : r.kind = "login" /\ ~r.detached}

\* the same for the mounted Login component alone, which the code
\* satisfies: its isLoading is true exactly while a request of its own is
\* outstanding, and it has at most one
LoginFlagWhileMounted ==
    /\ (route = "/login" /\ isLoading) <=> MountedLogins # {}
    /\ \A r \in MountedLogins : inflight[r] = 1
    /\ Cardinality(MountedLogins) <= 1

====
